---- MODULE Spec2Model ----
(***************************************************************************)
(* Token-budgeted truncation of a record: docetl/utils.py, count_tokens    *)
(* and truncate_sample_data.                                               *)
(*                                                                         *)
(* A Python str is a sequence of one-character strings.  A token is a      *)
(* non-empty sequence of characters, and a tokenizer cuts a text into      *)
(* consecutive chunks of a width fixed by the encoding (tiktoken is an     *)
(* external library: only "a text is cut into consecutive pieces, fewer    *)
(* of them under the larger vocabulary, and decode concatenates the        *)
(* pieces" is kept of it).  A model identifier is a sequence of segments,  *)
(* so that removing the "azure/" prefix is an operation on it.             *)
(***************************************************************************)
EXTENDS Integers, Sequences, FiniteSets

\* ------------------------------------------------------------------ bounds
\* Longest value of a field, in characters.
MaxValueLen == 60
\* Largest token budget tried, and the step between the budgets tried.
MaxBudget == 40
BudgetStep == 5
\* Length of the long field name, in characters.
LongNameLen == 44
\* Length of the value made of non-ASCII characters.
EscapedLen == 12
\* Most key slots in key_lists, summed over the groups.
MaxSlots == 3

\* ------------------------------------------------------- Python primitives
Min(a, b) == IF a <= b THEN a ELSE b

Max(a, b) == IF a >= b THEN a ELSE b

\* c * n for a one-character string c.
Rep(c, n) == [i \in 1..n |-> c]

\* A slice bound as Python normalises it for a sequence of length n:
\* a negative bound counts from the end, and both are clamped to 0..n.
PyIndex(i, n) == IF i < 0 THEN Max(n + i, 0) ELSE Min(i, n)

\* seq[:stop]
SliceTo(seq, stop) == SubSeq(seq, 1, PyIndex(stop, Len(seq)))

\* seq[start:]
SliceFrom(seq, start) == SubSeq(seq, PyIndex(start, Len(seq)) + 1, Len(seq))

\* str(value) of a str value.
Str(value) == value

\* One character as json.dumps writes it inside a string literal
\* (ensure_ascii: a non-ASCII character becomes a \uXXXX escape).
JsonEscape(c) ==
    IF c = "\"" THEN <<"\\", "\"">>
    ELSE IF c = "e'" THEN <<"\\", "u", "0", "0", "e", "9">>
    ELSE <<c>>

\* The escapes of s[lo..hi], one after the other.
RECURSIVE JsonEscapeRange(_, _, _)
JsonEscapeRange(s, lo, hi) ==
    IF lo > hi THEN <<>>
    ELSE IF lo = hi THEN JsonEscape(s[lo])
    ELSE LET mid == (lo + hi) \div 2
         IN  JsonEscapeRange(s, lo, mid) \o JsonEscapeRange(s, mid + 1, hi)

\* json.dumps(value) of a str value.
JsonDumps(value) == <<"\"">> \o JsonEscapeRange(value, 1, Len(value)) \o <<"\"">>

\* f'"{key}": {json.dumps(data[key])}'
Serialized(key, value) ==
    <<"\"">> \o key \o <<"\"", ":", " ">> \o JsonDumps(value)

\* ---------------------------------------------------------------- tiktoken
DefaultModel == <<"gpt-4o">>

\* The models tiktoken.encoding_for_model knows; any other name raises.
Registered(model_name) == model_name \in {<<"gpt-4o">>, <<"gpt-3.5-turbo">>}

EncodingName(model_name) ==
    IF model_name = <<"gpt-4o">> THEN "o200k_base" ELSE "cl100k_base"

\* Characters per token of an encoding.
ChunkSize(encoding) == IF encoding = "o200k_base" THEN 3 ELSE 2

\* encoder.encode(text)
Encode(encoding, text) ==
    LET c == ChunkSize(encoding)
        n == (Len(text) + c - 1) \div c
    IN  [i \in 1..n |-> SubSeq(text, (i - 1) * c + 1, Min(i * c, Len(text)))]

\* encoder.decode(tokens)
\* The characters of tokens[lo..hi], one token after the other.
RECURSIVE DecodeRange(_, _, _)
DecodeRange(tokens, lo, hi) ==
    IF lo > hi THEN <<>>
    ELSE IF lo = hi THEN tokens[lo]
    ELSE LET mid == (lo + hi) \div 2
         IN  DecodeRange(tokens, lo, mid) \o DecodeRange(tokens, mid + 1, hi)

Decode(tokens) == DecodeRange(tokens, 1, Len(tokens))

\* model.replace("azure/", "")
StripAzure(model) == SelectSeq(model, LAMBDA seg : seg # "azure/")

\* The encoding count_tokens measures with: the name without its provider
\* prefix if tiktoken knows it, else the encoding of gpt-4o.
CountEncoding(model) ==
    LET model_name == StripAzure(model)
    IN  IF Registered(model_name) THEN EncodingName(model_name)
        ELSE EncodingName(DefaultModel)

count_tokens(text, model) == Len(Encode(CountEncoding(model), text))

\* The encoding of the elision step: the name as given if tiktoken knows
\* it, else the encoding of gpt-4o.
ElideEncoding(model) ==
    IF Registered(model) THEN EncodingName(model)
    ELSE EncodingName(DefaultModel)

\* "[....truncated content...]"
MarkerText ==
    <<"[", ".", ".", ".", ".", "t", "r", "u", "n", "c", "a", "t", "e", "d",
      " ", "c", "o", "n", "t", "e", "n", "t", ".", ".", ".", "]">>

\* Tokens reserved for the truncation message.
ReservedTokens == 20

\* encoder.encode("[....truncated content...]")
MarkerTokens(encoding) == Encode(encoding, MarkerText)

\* ------------------------------------------------------------------ inputs
\* Two field names: "a", and a long one, "bb...b".  A name is held by its
\* first letter; KeyText gives the characters.
Keys == {"a", "b"}

KeyText(key) == IF key = "a" THEN <<"a">> ELSE Rep("b", LongNameLen)

\* The values a field may hold: runs of "x" of three lengths, and a run of
\* a non-ASCII character ("e'" stands for U+00E9, one character).
Values ==
    {Rep("x", 1), Rep("x", MaxValueLen \div 2), Rep("x", MaxValueLen),
     Rep("e'", EscapedLen)}

Records == UNION {[present -> Values] : present \in SUBSET Keys}

\* The lists of non-empty groups of field names with at most n names in
\* all; a name may repeat, in a group and across groups, and may be missing
\* from the record.
RECURSIVE KeyListsWithin(_)
KeyListsWithin(n) ==
    {<<>>} \cup
    UNION {UNION {{<<group>> \o rest : rest \in KeyListsWithin(n - len)} :
                     group \in [1..len -> Keys]} :
              len \in 1..n}

KeyLists == KeyListsWithin(MaxSlots)

Budgets == {b \in 0..MaxBudget : b % BudgetStep = 0}

\* A name tiktoken knows, the same name behind the provider prefix, and a
\* name tiktoken does not know.
Models == {<<"gpt-3.5-turbo">>, <<"azure/", "gpt-3.5-turbo">>, <<"my-model">>}

\* ------------------------------------------------------ truncate_sample_data
\* len(str(data.get(k, "")))
SortKey(k, data) == IF k \in DOMAIN data THEN Len(Str(data[k])) ELSE Len(<<>>)

\* One step of the stable sort: x goes after every element whose sort key
\* is at least its own.
InsertDescending(sorted, x, data) ==
    LET pos == Cardinality({i \in 1..Len(sorted) :
                               SortKey(sorted[i], data) >= SortKey(x, data)})
    IN  SubSeq(sorted, 1, pos) \o <<x>> \o SubSeq(sorted, pos + 1, Len(sorted))

\* A stable sort, longest value first: equal sort keys keep the order in
\* which the names are listed.
RECURSIVE StableSortDescending(_, _)
StableSortDescending(key_list, data) ==
    IF key_list = <<>> THEN <<>>
    ELSE InsertDescending(
             StableSortDescending(SubSeq(key_list, 1, Len(key_list) - 1), data),
             key_list[Len(key_list)], data)

\* Mutant of SortedKeys: the group is walked as it is listed.
SortedKeysAsListed(key_list, data) == key_list

\* sorted(key_list, key=lambda k: len(str(data.get(k, ""))), reverse=True)
SortedKeys(key_list, data) == StableSortDescending(key_list, data)

\* field_tokens = count_tokens(f'"{key}": {json.dumps(data[key])}', model)
FieldTokens(key, data, model) ==
    count_tokens(Serialized(KeyText(key), data[key]), model)

\* The else branch for one field: every local of the branch, by its name
\* in the source.
Elision(key, data, available_tokens, current_tokens, model) ==
    LET field_tokens == FieldTokens(key, data, model)
        remaining_tokens == available_tokens - current_tokens
        encoding == ElideEncoding(model)
        encoded_value == Encode(encoding, Str(data[key]))
        tokens_to_keep == remaining_tokens - ReservedTokens
        start_tokens == Min(tokens_to_keep \div 2, field_tokens \div 2)
        end_tokens == Min(tokens_to_keep - start_tokens, field_tokens - start_tokens)
        head == SliceTo(encoded_value, start_tokens)
        tail == SliceFrom(encoded_value, 0 - end_tokens)
        truncated_encoded == head \o MarkerTokens(encoding) \o tail
    IN  [key |-> key,
         field_tokens |-> field_tokens,
         remaining_tokens |-> remaining_tokens,
         count_encoding |-> CountEncoding(model),
         encoding |-> encoding,
         encoded_value |-> encoded_value,
         tokens_to_keep |-> tokens_to_keep,
         start_tokens |-> start_tokens,
         end_tokens |-> end_tokens,
         head |-> head,
         tail |-> tail,
         truncated_encoded |-> truncated_encoded,
         truncated_value |-> Decode(truncated_encoded)]

\* truncated_data[key] = value
SetItem(dict, key, value) ==
    [k \in DOMAIN dict \cup {key} |-> IF k = key THEN value ELSE dict[k]]

EmptyDict == [k \in {} |-> <<>>]

\* ------------------------------------------------------------------- state
VARIABLES
    data,             \* the record
    available_tokens, \* the budget
    key_lists,        \* the priority groups
    model,            \* the model identifier
    truncated_data,   \* the output record
    current_tokens,   \* tokens consumed so far
    group_index,      \* position of the outer loop in key_lists
    sorted_keys,      \* the sorted group the inner loop runs over
    key_index,        \* position of the inner loop in sorted_keys
    pc,               \* "groups": outer loop, "keys": inner loop, "returned"
    examined,         \* the fields the if/else was run for, in order
    elisions          \* the locals of each run of the else branch, in order

vars ==
    <<data, available_tokens, key_lists, model, truncated_data, current_tokens,
      group_index, sorted_keys, key_index, pc, examined, elisions>>

inputs == <<data, available_tokens, key_lists, model>>

Init ==
    /\ data \in Records
    /\ available_tokens \in Budgets
    /\ key_lists \in KeyLists
    /\ model \in Models
    /\ truncated_data = EmptyDict
    /\ current_tokens = 0
    /\ group_index = 1
    /\ sorted_keys = <<>>
    /\ key_index = 1
    /\ pc = "groups"
    /\ examined = <<>>
    /\ elisions = <<>>

\* for key_list in key_lists: the next group is sorted and entered.
EnterGroup ==
    /\ pc = "groups"
    /\ group_index <= Len(key_lists)
    /\ sorted_keys' = SortedKeys(key_lists[group_index], data)
    /\ key_index' = 1
    /\ pc' = "keys"
    /\ UNCHANGED <<inputs, truncated_data, current_tokens, group_index,
                   examined, elisions>>

\* if key in data: false, the name is passed over.
SkipKey ==
    /\ pc = "keys"
    /\ key_index <= Len(sorted_keys)
    /\ sorted_keys[key_index] \notin DOMAIN data
    /\ key_index' = key_index + 1
    /\ UNCHANGED <<inputs, truncated_data, current_tokens, group_index,
                   sorted_keys, pc, examined, elisions>>

\* if current_tokens + field_tokens <= available_tokens: the field is
\* copied whole.
AcceptField ==
    /\ pc = "keys"
    /\ key_index <= Len(sorted_keys)
    /\ LET key == sorted_keys[key_index]
       IN  /\ key \in DOMAIN data
           /\ LET field_tokens == FieldTokens(key, data, model)
              IN  /\ current_tokens + field_tokens <= available_tokens
                  /\ truncated_data' = SetItem(truncated_data, key, data[key])
                  /\ current_tokens' = current_tokens + field_tokens
                  /\ examined' = Append(examined, key)
    /\ key_index' = key_index + 1
    /\ UNCHANGED <<inputs, group_index, sorted_keys, pc, elisions>>

\* Mutant of ElideField: the value is elided and stored, but the loop goes
\* on to the next name instead of returning.
ElideFieldAndGoOn ==
    /\ pc = "keys"
    /\ key_index <= Len(sorted_keys)
    /\ LET key == sorted_keys[key_index]
       IN  /\ key \in DOMAIN data
           /\ current_tokens + FieldTokens(key, data, model) > available_tokens
           /\ LET e == Elision(key, data, available_tokens, current_tokens, model)
              IN  /\ truncated_data' = SetItem(truncated_data, key, e.truncated_value)
                  /\ current_tokens' = current_tokens + Len(e.truncated_encoded)
                  /\ elisions' = Append(elisions, e)
                  /\ examined' = Append(examined, key)
    /\ key_index' = key_index + 1
    /\ UNCHANGED <<inputs, group_index, sorted_keys, pc>>

\* else: the value is elided, stored, and the function returns.
ElideField ==
    /\ pc = "keys"
    /\ key_index <= Len(sorted_keys)
    /\ LET key == sorted_keys[key_index]
       IN  /\ key \in DOMAIN data
           /\ current_tokens + FieldTokens(key, data, model) > available_tokens
           /\ LET e == Elision(key, data, available_tokens, current_tokens, model)
              IN  /\ truncated_data' = SetItem(truncated_data, key, e.truncated_value)
                  /\ current_tokens' = current_tokens + Len(e.truncated_encoded)
                  /\ elisions' = Append(elisions, e)
                  /\ examined' = Append(examined, key)
    /\ pc' = "returned"
    /\ UNCHANGED <<inputs, group_index, sorted_keys, key_index>>

\* The inner loop is exhausted: on to the next group.
LeaveGroup ==
    /\ pc = "keys"
    /\ key_index > Len(sorted_keys)
    /\ group_index' = group_index + 1
    /\ pc' = "groups"
    /\ UNCHANGED <<inputs, truncated_data, current_tokens, sorted_keys,
                   key_index, examined, elisions>>

\* The outer loop is exhausted: return truncated_data.
ReturnAll ==
    /\ pc = "groups"
    /\ group_index > Len(key_lists)
    /\ pc' = "returned"
    /\ UNCHANGED <<inputs, truncated_data, current_tokens, group_index,
                   sorted_keys, key_index, examined, elisions>>

Next ==
    \/ EnterGroup
    \/ SkipKey
    \/ AcceptField
    \/ ElideField
    \/ LeaveGroup
    \/ ReturnAll

Spec == Init /\ [][Next]_vars

TypeOK ==
    /\ pc \in {"groups", "keys", "returned"}
    /\ DOMAIN truncated_data \subseteq DOMAIN data

\* ------------------------------------------- the function as one expression
\* The names the if/else runs for, in order: each group sorted, the names
\* missing from the record dropped, the groups one after the other.
RECURSIVE ProcessingOrder(_, _)
ProcessingOrder(d, lists) ==
    IF lists = <<>> THEN <<>>
    ELSE SelectSeq(SortedKeys(Head(lists), d), LAMBDA k : k \in DOMAIN d)
         \o ProcessingOrder(d, Tail(lists))

\* The loop body run over order[i..]: the record that is returned.
RECURSIVE RunFrom(_, _, _, _, _, _, _)
RunFrom(order, i, out, consumed, d, budget, m) ==
    IF i > Len(order) THEN out
    ELSE LET key == order[i]
             field_tokens == FieldTokens(key, d, m)
         IN  IF consumed + field_tokens <= budget
             THEN RunFrom(order, i + 1, SetItem(out, key, d[key]),
                          consumed + field_tokens, d, budget, m)
             ELSE SetItem(out, key, Elision(key, d, budget, consumed, m).truncated_value)

\* truncate_sample_data(data, available_tokens, key_lists, model)
truncate_sample_data(d, budget, lists, m) ==
    RunFrom(ProcessingOrder(d, lists), 1, EmptyDict, 0, d, budget, m)

\* ------------------------------------------------------------------ helpers
Returned == pc = "returned"

Range(seq) == {seq[i] : i \in 1..Len(seq)}

RECURSIVE SumTokens(_, _, _)
SumTokens(keys, d, m) ==
    IF keys = {} THEN 0
    ELSE LET k == CHOOSE x \in keys : TRUE
         IN  FieldTokens(k, d, m) + SumTokens(keys \ {k}, d, m)

\* The fields of the output whose value is not the input's.
Changed == {k \in DOMAIN truncated_data : truncated_data[k] # data[k]}

\* How often the token sequence part occurs in whole.
Occurrences(part, whole) ==
    Cardinality({i \in 1..(Len(whole) - Len(part) + 1) :
                    SubSeq(whole, i, i + Len(part) - 1) = part})

Orderings(seq) ==
    {[i \in 1..Len(seq) |-> seq[p[i]]] :
        p \in {q \in [1..Len(seq) -> 1..Len(seq)] :
                  \A i, j \in 1..Len(seq) : q[i] = q[j] => i = j}}

\* key_lists with the names of every group rearranged in every way.
RECURSIVE Rearranged(_)
Rearranged(lists) ==
    IF lists = <<>> THEN {<<>>}
    ELSE {<<h>> \o t : h \in Orderings(Head(lists)), t \in Rearranged(Tail(lists))}

\* No two different fields of one group have values of the same length.
DistinctLengths ==
    \A g \in 1..Len(key_lists) :
        \A k1, k2 \in Range(key_lists[g]) \cap DOMAIN data :
            k1 # k2 => SortKey(k1, data) # SortKey(k2, data)

\* The step machine returns what the function returns.
ReturnsFunctionValue ==
    Returned =>
        truncated_data = truncate_sample_data(data, available_tokens, key_lists, model)

\* ------------------------------------------------------------------- claims

\* C1. Budget respected: with a budget of at least 20 and a marker of at
\* most 20 tokens, what has been consumed at the return (the cost of the
\* fields accepted whole plus the length of the elided token sequence) is
\* at most the budget plus the 20 reserved tokens.
C1_BudgetRespected ==
    (/\ Returned
     /\ available_tokens >= ReservedTokens
     /\ Len(MarkerTokens(ElideEncoding(model))) <= ReservedTokens)
        => current_tokens <= available_tokens + ReservedTokens

\* C2. At most one elided field: the keys of the returned record are keys
\* of the input record, and at most one of its values differs from the
\* input's value.
C2_AtMostOneElidedField ==
    Returned =>
        /\ DOMAIN truncated_data \subseteq DOMAIN data
        /\ Cardinality(Changed) <= 1

\* A field is accepted whole, another one too, and then the first is met a
\* second time and elided: one value changed, one unchanged.
C2_Witness ==
    /\ Returned
    /\ Cardinality(Changed) = 1
    /\ \E k \in DOMAIN truncated_data : k \notin Changed
    /\ Len(elisions) = 1
    /\ Changed = {elisions[1].key}
    /\ \E i \in 1..(Len(examined) - 1) : examined[i] = elisions[1].key

\* C3. Priority ordering: when the output holds a field that belongs to
\* group j only, every field of an earlier group that the record has is in
\* the output with its original value.
C3_PriorityOrdering ==
    Returned =>
        \A j \in 1..Len(key_lists) :
            \A k \in DOMAIN truncated_data :
                (/\ k \in Range(key_lists[j])
                 /\ \A g \in 1..Len(key_lists) :
                        g # j => k \notin Range(key_lists[g]))
                    => \A i \in 1..(j - 1) :
                           \A f \in Range(key_lists[i]) \cap DOMAIN data :
                               /\ f \in DOMAIN truncated_data
                               /\ truncated_data[f] = data[f]

\* C4. No-op on a sufficient budget: when the budget is at least the cost
\* of the record, each field counted once, nothing is elided and the
\* output is the record restricted to the names in the groups.
C4_NoOpOnSufficientBudget ==
    (Returned /\ available_tokens >= SumTokens(DOMAIN data, data, model)) =>
        /\ elisions = <<>>
        /\ DOMAIN truncated_data =
               DOMAIN data \cap UNION {Range(key_lists[g]) : g \in 1..Len(key_lists)}
        /\ \A k \in DOMAIN truncated_data : truncated_data[k] = data[k]

\* The first entry of the processing order whose cost exceeds what the
\* entries before it have left of the budget; 0 when every entry fits.
RECURSIVE FirstMisfitFrom(_, _, _)
FirstMisfitFrom(order, i, spent) ==
    IF i > Len(order) THEN 0
    ELSE LET cost == FieldTokens(order[i], data, model)
         IN  IF cost > available_tokens - spent THEN i
             ELSE FirstMisfitFrom(order, i + 1, spent + cost)

FirstMisfit(order) == FirstMisfitFrom(order, 1, 0)

\* C5. Hard stop: the elided field is the first one in processing order
\* that does not fit; it is the last field examined and the last one
\* written, and nothing after it is examined or added.  When every field
\* fits, nothing is elided.
C5_HardStopAtFirstMisfit ==
    Returned =>
        LET order == ProcessingOrder(data, key_lists)
            i == FirstMisfit(order)
        IN  IF i = 0
            THEN elisions = <<>> /\ examined = order
            ELSE /\ Len(elisions) = 1
                 /\ elisions[1].key = order[i]
                 /\ examined = SubSeq(order, 1, i)
                 /\ DOMAIN truncated_data = Range(SubSeq(order, 1, i))
                 /\ truncated_data[order[i]] = elisions[1].truncated_value

\* A field is elided although a field behind it in the processing order
\* would have fitted into what was left of the budget.
C5_Witness ==
    /\ Returned
    /\ Len(elisions) = 1
    /\ LET order == ProcessingOrder(data, key_lists)
       IN  /\ Len(examined) < Len(order)
           /\ order[Len(examined) + 1] \notin DOMAIN truncated_data
           /\ FieldTokens(order[Len(examined) + 1], data, model)
                  <= elisions[1].remaining_tokens

\* C6. Tie-break determinism: a group is walked longest value first, and
\* when the fields of each group have values of different lengths, the
\* returned record is the same however the names are arranged in the
\* groups.
C6_TieBreakDeterminism ==
    /\ pc = "keys" =>
           \A i, j \in 1..Len(sorted_keys) :
               i < j => SortKey(sorted_keys[i], data) >= SortKey(sorted_keys[j], data)
    /\ (Returned /\ DistinctLengths) =>
           \A lists \in Rearranged(key_lists) :
               truncate_sample_data(data, available_tokens, lists, model)
                   = truncated_data

\* A group lists the shorter of two fields first; the longer is tried
\* first and elided, and the shorter, which would have fitted, is left out.
C6_Witness ==
    /\ Returned
    /\ DistinctLengths
    /\ Len(key_lists) = 1
    /\ Len(elisions) = 1
    /\ \E short \in DOMAIN data :
           /\ key_lists[1] = <<short, elisions[1].key>>
           /\ SortKey(short, data) < SortKey(elisions[1].key, data)
           /\ examined = <<elisions[1].key>>
           /\ short \notin DOMAIN truncated_data
           /\ FieldTokens(short, data, model) <= available_tokens

\* C7. One tokenizer: the encoding that encodes and decodes the elided
\* value is the encoding count_tokens measured the field with.
C7_OneTokenizer ==
    \A i \in 1..Len(elisions) : elisions[i].encoding = elisions[i].count_encoding

\* C8. Elision shortens and marks: when the value alone has more tokens
\* than the budget, however small the budget, the elided token sequence
\* holds the marker tokens once and is shorter than the token sequence of
\* the value.  Stated for the values that have more tokens than the 20
\* reserved for the marker, the ones a marker can shorten at all.
C8_ElisionShortens ==
    \A i \in 1..Len(elisions) :
        LET e == elisions[i]
        IN  (/\ Len(e.encoded_value) > available_tokens
             /\ count_tokens(Str(data[e.key]), model) > available_tokens
             /\ Len(e.encoded_value) > ReservedTokens)
                => /\ Occurrences(MarkerTokens(e.encoding), e.truncated_encoded) = 1
                   /\ Len(e.truncated_encoded) < Len(e.encoded_value)

\* The first n elements of seq, none when n <= 0.
FirstTokens(seq, n) == SubSeq(seq, 1, Min(n, Len(seq)))

\* The last n elements of seq, none when n <= 0.
LastTokens(seq, n) == SubSeq(seq, Len(seq) - Min(n, Len(seq)) + 1, Len(seq))

\* C9. Elision arithmetic: with fieldTokens the number of tokens of the
\* encoded value, startTokens = min(keepable div 2, fieldTokens div 2),
\* endTokens = min(keepable - startTokens, fieldTokens - startTokens), the
\* elided sequence is the first startTokens tokens, the marker, the last
\* endTokens tokens, of length startTokens + markerLength + endTokens, and
\* that length is added to what was consumed.  Stated for keepable >= 0,
\* where "the first startTokens tokens" has a meaning.
C9_ElisionArithmetic ==
    \A i \in 1..Len(elisions) :
        LET e == elisions[i]
            fieldTokens == Len(e.encoded_value)
            keepable == e.remaining_tokens - ReservedTokens
            startTokens == Min(keepable \div 2, fieldTokens \div 2)
            endTokens == Min(keepable - startTokens, fieldTokens - startTokens)
            marker == MarkerTokens(e.encoding)
        IN  keepable >= 0 =>
                /\ e.start_tokens = startTokens
                /\ e.end_tokens = endTokens
                /\ e.truncated_encoded =
                       FirstTokens(e.encoded_value, startTokens) \o marker
                           \o LastTokens(e.encoded_value, endTokens)
                /\ Len(e.truncated_encoded) = startTokens + Len(marker) + endTokens
                /\ Returned => current_tokens =
                       (available_tokens - e.remaining_tokens)
                           + Len(e.truncated_encoded)

\* C10. Head and tail never overlap: when more than 20 tokens remain, the
\* head and the tail taken from the value have together no more tokens
\* than the encoded value.
C10_HeadTailDisjoint ==
    \A i \in 1..Len(elisions) :
        LET e == elisions[i]
        IN  e.tokens_to_keep >= 1 =>
                Len(e.head) + Len(e.tail) <= Len(e.encoded_value)

====
